---------------------------- MODULE Spec2Model ----------------------------
(***************************************************************************)
(* A model of analyze_json_structure.py: the shape analyzer                *)
(* (get_type_name, analyze_structure), the shape renderer                  *)
(* (print_structure) and the part of main that drives them.                *)
(*                                                                         *)
(* Python strings (paths, keys, string values) are sequences of            *)
(* one-character strings, so that concatenation, slicing and length are    *)
(* computed as the code computes them.  A Python value is a record whose   *)
(* field t is the name of its runtime type.  A Python dict that keeps      *)
(* insertion order is a sequence of [k, v] pairs with distinct keys.       *)
(***************************************************************************)
EXTENDS Integers, Sequences, FiniteSets

VARIABLES
    obj,            \* the value handed to analyze_structure
    depth,          \* the depth argument of the top-level call
    max_depth,      \* the max_depth argument of the top-level call
    pc,             \* position in the driver: init, analyzed, printed, ...
    structure,      \* the descriptor analyze_structure returned
    seen_paths,     \* the set the run threads through the recursion
    calls,          \* history: one entry per analyze_structure invocation
    out             \* history: the print calls of the last print_structure

vars == <<obj, depth, max_depth, pc, structure, seen_paths, calls, out>>

-----------------------------------------------------------------------------
(* Bounds of the input space *)

MaxLen == 4         \* longest list of atoms
MaxInnerLen == 2    \* longest list of nested values
MaxStrLen == 52     \* longest top-level string
MaxDepth == 2       \* largest explicit max_depth argument
MaxStartDepth == 2  \* largest explicit depth argument
MaxNest == 4        \* deepest chain of nested containers

(* Program constants *)

SampleCap == 3          \* min(3, len(obj))
StrLimit == 50          \* len(obj) > 50
StrKeep == 47           \* obj[:47]
DefaultMaxDepth == 5    \* max_depth: int = 5
DetailMaxDepth == 10    \* analyze_structure(data[0], max_depth=10)

Min(a, b) == IF a < b THEN a ELSE b

-----------------------------------------------------------------------------
(* Python values *)

PyNone == [t |-> "NoneType"]
PyBool(b) == [t |-> "bool", v |-> b]
PyInt(n) == [t |-> "int", v |-> n]
PyFloat(n) == [t |-> "float", v |-> n]      \* the float n + 0.5
PyStr(s) == [t |-> "str", v |-> s]
PyList(xs) == [t |-> "list", v |-> xs]
PyDict(kvs) == [t |-> "dict", v |-> kvs]
PyBytes == [t |-> "bytes"]                  \* a value json.load never yields

\* isinstance(obj, cls): bool is a subclass of int
isinstance(o, cls) == o.t = cls \/ (cls = "int" /\ o.t = "bool")

-----------------------------------------------------------------------------
(* get_type_name *)

\* get_type_name with the int test ahead of the bool test
get_type_name_IntFirst(o) ==
    IF o.t = "NoneType" THEN "null"
    ELSE IF isinstance(o, "int") THEN "integer"
    ELSE IF isinstance(o, "bool") THEN "boolean"
    ELSE IF isinstance(o, "float") THEN "number"
    ELSE IF isinstance(o, "str") THEN "string"
    ELSE IF isinstance(o, "list") THEN "array"
    ELSE IF isinstance(o, "dict") THEN "object"
    ELSE o.t

get_type_name(o) ==
    IF o.t = "NoneType" THEN "null"
    ELSE IF isinstance(o, "bool") THEN "boolean"
    ELSE IF isinstance(o, "int") THEN "integer"
    ELSE IF isinstance(o, "float") THEN "number"
    ELSE IF isinstance(o, "str") THEN "string"
    ELSE IF isinstance(o, "list") THEN "array"
    ELSE IF isinstance(o, "dict") THEN "object"
    ELSE o.t

-----------------------------------------------------------------------------
(* analyze_structure *)

Root == <<"r", "o", "o", "t">>
Ellipsis == <<".", ".", ".">>

\* str(i) for a list index
Digit(i) == <<"0", "1", "2", "3", "4", "5", "6", "7", "8", "9">>[i + 1]

\* f"{path}[{i}]"
item_path(path, i) == path \o <<"[", Digit(i), "]">>

\* f"{path}.{key}"
child_path(path, key) == path \o <<".">> \o key

\* {"type": "...", "note": "max depth reached"}
Truncated == [type |-> "...", note |-> "max depth reached"]

\* the depth test off by one, either way
depth_exceeded_Ge(d, m) == d >= m

depth_exceeded_Late(d, m) == d > m + 1

\* if depth > max_depth
depth_exceeded(d, m) == d > m

\* sampling with no cap
sample_size_All(xs) == Len(xs)

\* sample_size = min(3, len(obj))
sample_size(xs) == Min(SampleCap, Len(xs))

\* truncation that keeps 50 characters before the ellipsis
string_sample_Keep50(s) ==
    IF Len(s) > StrLimit THEN SubSeq(s, 1, Min(StrLimit, Len(s))) \o Ellipsis ELSE s

\* obj[:47] + "..." if len(obj) > 50 else obj
string_sample(s) ==
    IF Len(s) > StrLimit THEN SubSeq(s, 1, Min(StrKeep, Len(s))) \o Ellipsis ELSE s

\* the str branch guarded by the truth value of the string
string_node_Truthy(ty, s) ==
    IF Len(s) > 0 THEN [type |-> ty, sample |-> string_sample(s)] ELSE [type |-> ty]

\* the isinstance(obj, str) branch: result["sample"] is always set
string_node(ty, s) == [type |-> ty, sample |-> string_sample(s)]

\* Python's == on two descriptors: dicts compare as mappings (key order is
\* ignored), lists compare element by element, a dict never equals a list.
RECURSIVE desc_eq(_, _)
desc_eq(a, b) ==
    /\ DOMAIN a = DOMAIN b
    /\ a.type = b.type
    /\ "note" \in DOMAIN a => a.note = b.note
    /\ "sample" \in DOMAIN a => a.sample = b.sample
    /\ "length" \in DOMAIN a => a.length = b.length
    /\ "items" \in DOMAIN a =>
          /\ DOMAIN a.items = DOMAIN b.items
          /\ "one" \in DOMAIN a.items => desc_eq(a.items.one, b.items.one)
          /\ "many" \in DOMAIN a.items =>
                /\ Len(a.items.many) = Len(b.items.many)
                /\ \A i \in 1..Len(a.items.many) :
                       desc_eq(a.items.many[i], b.items.many[i])
    /\ "properties" \in DOMAIN a =>
          /\ Len(a.properties) = Len(b.properties)
          /\ \A i \in 1..Len(a.properties) :
                \E j \in 1..Len(b.properties) :
                    /\ a.properties[i].k = b.properties[j].k
                    /\ desc_eq(a.properties[i].v, b.properties[j].v)

\* all(s == samples[0] for s in samples)
all_same(samples) == \A i \in 1..Len(samples) : desc_eq(samples[i], samples[1])

\* result["items"]: samples[0] when uniform, else the list samples
items_of(samples) ==
    IF all_same(samples) THEN [one |-> samples[1]] ELSE [many |-> samples]

\* the negation of: child_path not in seen_paths
path_seen(p, seen) == p \in seen

RECURSIVE analyze_structure(_, _, _, _, _, _, _)
RECURSIVE analyze_items(_, _, _, _, _, _, _, _, _)
RECURSIVE analyze_props(_, _, _, _, _, _, _, _)

\* The call analyze_structure(o, path, d, m, seen): its return value, the
\* set seen_paths as the call leaves it, and the invocation history, to
\* which the call adds itself and the calls it makes.  frames is the number
\* of analyze_structure frames on the call stack, this one included.
analyze_structure(o, path, d, m, seen, trace, frames) ==
    LET here == Append(trace, [path |-> path, depth |-> d, frames |-> frames])
        base == [type |-> get_type_name(o)]
    IN  IF depth_exceeded(d, m)
        THEN [result |-> Truncated, seen |-> seen, calls |-> here]
        ELSE IF isinstance(o, "list")
        THEN IF Len(o.v) > 0
             THEN LET r == analyze_items(o.v, path, 0, sample_size(o.v),
                                         d, m, seen, here, frames)
                  IN  [result |-> [type |-> base.type, length |-> Len(o.v),
                                   items |-> items_of(r.samples)],
                       seen |-> r.seen, calls |-> r.calls]
             ELSE [result |-> [type |-> base.type, length |-> 0],
                   seen |-> seen, calls |-> here]
        ELSE IF isinstance(o, "dict")
        THEN LET r == analyze_props(o.v, path, 1, d, m, seen, here, frames)
             IN  [result |-> [type |-> base.type, properties |-> r.props],
                  seen |-> r.seen, calls |-> r.calls]
        ELSE IF isinstance(o, "str")
        THEN [result |-> string_node(base.type, o.v),
              seen |-> seen, calls |-> here]
        ELSE [result |-> base, seen |-> seen, calls |-> here]

\* for i in range(sample_size): samples.append(analyze_structure(obj[i], ...))
\* from index i (0-based) on
analyze_items(xs, path, i, n, d, m, seen, trace, frames) ==
    IF i >= n
    THEN [samples |-> <<>>, seen |-> seen, calls |-> trace]
    ELSE LET r == analyze_structure(xs[i + 1], item_path(path, i), d + 1, m,
                                    seen, trace, frames + 1)
             rest == analyze_items(xs, path, i + 1, n, d, m,
                                   r.seen, r.calls, frames)
         IN  [samples |-> <<r.result>> \o rest.samples,
              seen |-> rest.seen, calls |-> rest.calls]

\* for key, value in obj.items(): ... from the i-th pair (1-based) on
analyze_props(kvs, path, i, d, m, seen, trace, frames) ==
    IF i > Len(kvs)
    THEN [props |-> <<>>, seen |-> seen, calls |-> trace]
    ELSE LET cp == child_path(path, kvs[i].k)
         IN  IF ~path_seen(cp, seen)
             THEN LET r == analyze_structure(kvs[i].v, cp, d + 1, m,
                                             seen \cup {cp}, trace, frames + 1)
                      rest == analyze_props(kvs, path, i + 1, d, m,
                                            r.seen, r.calls, frames)
                  IN  [props |-> <<[k |-> kvs[i].k, v |-> r.result]>> \o rest.props,
                       seen |-> rest.seen, calls |-> rest.calls]
             ELSE analyze_props(kvs, path, i + 1, d, m, seen, trace, frames)

-----------------------------------------------------------------------------
(* print_structure *)

\* One print call: ind leading spaces, the text (with the value formatted
\* into it in a field of its own), and the end argument.
newline == [ind |-> 0, text |-> "", end |-> "\n"]                  \* print()

\* print(f"{ind}Object {{")
open_object(indent) == <<[ind |-> 2 * indent, text |-> "Object {", end |-> "\n"]>>

\* print(f"{ind}Array[{length}] {{")
open_array(indent, length) ==
    <<[ind |-> 2 * indent, text |-> "Array[] {", length |-> length, end |-> "\n"]>>

\* a block that is never closed
close_brace_Missing(indent) == <<>>

\* print(f"{ind}}}")
close_brace(indent) == <<[ind |-> 2 * indent, text |-> "}", end |-> "\n"]>>

\* print(f"{ind}  {key}:", end="")
key_write(indent, key) ==
    [ind |-> 2 * indent + 2, text |-> "key:", key |-> key, end |-> ""]

\* print(f"{ind}  [{i}]:")
index_write(indent, i) ==
    [ind |-> 2 * indent + 2, text |-> "[]:", index |-> i, end |-> "\n"]

\* print(f"{ind}  items:")
items_write(indent) == [ind |-> 2 * indent + 2, text |-> "items:", end |-> "\n"]

\* print(f" {value['type']}", end="") and print(f"{ind}{structure['type']}", end="")
type_write(spaces, ty) == [ind |-> spaces, text |-> "type", type |-> ty, end |-> ""]

\* if "sample" in value: print(f" (e.g., \"{value['sample']}\")", end="")
sample_writes(d) ==
    IF "sample" \in DOMAIN d
    THEN <<[ind |-> 1, text |-> "(e.g., \"\")", sample |-> d.sample, end |-> ""]>>
    ELSE <<>>

is_container(d) == d.type \in {"object", "array"}

RECURSIVE print_structure(_, _)
RECURSIVE print_props(_, _, _)
RECURSIVE print_list(_, _, _)

print_structure(d, indent) ==
    IF d.type = "object"
    THEN open_object(indent)
         \o (IF "properties" \in DOMAIN d
             THEN print_props(d.properties, 1, indent) ELSE <<>>)
         \o close_brace(indent)
    ELSE IF d.type = "array"
    THEN open_array(indent, IF "length" \in DOMAIN d THEN d.length ELSE 0)
         \o (IF "items" \in DOMAIN d
             THEN IF "many" \in DOMAIN d.items
                  THEN print_list(d.items.many, 1, indent)
                  ELSE <<items_write(indent)>>
                       \o print_structure(d.items.one, indent + 2)
             ELSE <<>>)
         \o close_brace(indent)
    ELSE <<type_write(2 * indent, d.type)>> \o sample_writes(d)

\* for key, value in structure["properties"].items(): ... from the i-th on
print_props(props, i, indent) ==
    IF i > Len(props) THEN <<>>
    ELSE <<key_write(indent, props[i].k)>>
         \o (IF is_container(props[i].v)
             THEN <<newline>> \o print_structure(props[i].v, indent + 2)
             ELSE <<type_write(1, props[i].v.type)>>
                  \o sample_writes(props[i].v) \o <<newline>>)
         \o print_props(props, i + 1, indent)

\* for i, item in enumerate(structure["items"]): ... from the i-th (1-based) on
print_list(items, i, indent) ==
    IF i > Len(items) THEN <<>>
    ELSE <<index_write(indent, i - 1)>>
         \o print_structure(items[i], indent + 2)
         \o print_list(items, i + 1, indent)

-----------------------------------------------------------------------------
(* Input values *)

SeqsUpTo(S, n) == UNION {[1..k -> S] : k \in 0..n}

Alphabet == <<"a", "b", "c">>
StrOf(n, c) == [i \in 1..n |-> Alphabet[((i + c) % 3) + 1]]
Strings == {PyStr(StrOf(n, c)) : n \in 0..MaxStrLen, c \in {0, 1}}

KeyA == <<"a">>
KeyB == <<"b">>
KeyC == <<"c">>
KeyAdotB == <<"a", ".", "b">>
KeyAidx0 == <<"a", "[", "0", "]">>
Keys == {KeyA, KeyB, KeyAdotB, KeyAidx0}

Atoms == {PyNone, PyBool(TRUE), PyBool(FALSE), PyInt(1), PyFloat(1),
          PyStr(<<"a">>), PyBytes}
ListAtoms == {PyNone, PyBool(TRUE), PyInt(1), PyStr(<<"a">>)}
InnerAtoms == {PyInt(1), PyStr(<<"a">>)}

DictsOver(S) ==
    {<<>>}
    \cup {<<[k |-> k1, v |-> v1]>> : k1 \in Keys, v1 \in S}
    \cup {<<[k |-> kv[1], v |-> kv[2]], [k |-> kv[3], v |-> kv[4]]>> :
            kv \in {q \in Keys \X S \X Keys \X S : q[1] # q[3]}}

Inner ==
    InnerAtoms
    \cup {PyList(xs) : xs \in SeqsUpTo(InnerAtoms, 1)}
    \cup {PyDict(<<>>)} \cup {PyDict(<<[k |-> KeyB, v |-> x]>>) : x \in InnerAtoms}

RECURSIVE Nest(_)
Nest(k) ==
    IF k = 0 THEN InnerAtoms
    ELSE {PyList(<<x>>) : x \in Nest(k - 1)}
         \cup {PyDict(<<[k |-> KeyA, v |-> x]>>) : x \in Nest(k - 1)}

List1234 == PyList(<<PyInt(1), PyInt(2), PyInt(3), PyInt(4)>>)
ListMixed == PyList(<<PyInt(1), PyStr(<<"a">>), PyBool(TRUE)>>)
DictEndToEnd ==
    PyDict(<<[k |-> KeyA, v |-> PyInt(1)],
             [k |-> KeyB, v |-> PyList(<<PyInt(1), PyInt(2), PyInt(3)>>)],
             [k |-> KeyC, v |-> PyStr(<<"h", "i">>)]>>)
DictAB == PyDict(<<[k |-> KeyA, v |-> PyInt(1)], [k |-> KeyB, v |-> PyStr(<<"a">>)]>>)
DictBA == PyDict(<<[k |-> KeyB, v |-> PyStr(<<"a">>)], [k |-> KeyA, v |-> PyInt(1)]>>)
ListReordered == PyList(<<DictAB, DictBA>>)
Examples == {List1234, ListMixed, DictEndToEnd, ListReordered}

Values ==
    Atoms
    \cup Strings
    \cup {PyList(xs) : xs \in SeqsUpTo(ListAtoms, MaxLen)}
    \cup {PyList(xs) : xs \in SeqsUpTo(Inner, MaxInnerLen)}
    \cup {PyDict(kvs) : kvs \in DictsOver(Inner)}
    \cup UNION {Nest(k) : k \in 0..MaxNest}
    \cup Examples

-----------------------------------------------------------------------------
(* The driver: main's calls, and direct calls with explicit arguments *)

NoStructure == [type |-> "unset"]

Init ==
    /\ obj \in Values
    /\ \/ depth = 0 /\ max_depth \in (0..MaxDepth) \cup {DefaultMaxDepth}
       \/ depth \in 1..MaxStartDepth /\ max_depth \in 0..MaxDepth
    /\ pc = "init"
    /\ structure = NoStructure
    /\ seen_paths = {}
    /\ calls = <<>>
    /\ out = <<>>

\* structure = analyze_structure(data)
Analyze ==
    /\ pc = "init"
    /\ LET r == analyze_structure(obj, Root, depth, max_depth, {}, <<>>, 1)
       IN  /\ structure' = r.result
           /\ seen_paths' = r.seen
           /\ calls' = r.calls
    /\ pc' = "analyzed"
    /\ UNCHANGED <<obj, depth, max_depth, out>>

\* print_structure(structure)
Render ==
    /\ pc = "analyzed"
    /\ out' = print_structure(structure, 0)
    /\ pc' = "printed"
    /\ UNCHANGED <<obj, depth, max_depth, structure, seen_paths, calls>>

\* if isinstance(data, list) and len(data) > 0:
\*     first_item_structure = analyze_structure(data[0], max_depth=10)
DetailAnalyze ==
    /\ pc = "printed"
    /\ depth = 0 /\ max_depth = DefaultMaxDepth
    /\ isinstance(obj, "list") /\ Len(obj.v) > 0
    /\ obj' = obj.v[1]
    /\ max_depth' = DetailMaxDepth
    /\ LET r == analyze_structure(obj.v[1], Root, 0, DetailMaxDepth, {}, <<>>, 1)
       IN  /\ structure' = r.result
           /\ seen_paths' = r.seen
           /\ calls' = r.calls
    /\ pc' = "detail_analyzed"
    /\ UNCHANGED <<depth, out>>

\*     print_structure(first_item_structure)
DetailRender ==
    /\ pc = "detail_analyzed"
    /\ out' = print_structure(structure, 0)
    /\ pc' = "detail_printed"
    /\ UNCHANGED <<obj, depth, max_depth, structure, seen_paths, calls>>

Next == Analyze \/ Render \/ DetailAnalyze \/ DetailRender

Spec == Init /\ [][Next]_vars

Analyzed == pc # "init"
Printed == pc \in {"printed", "detail_printed"}

-----------------------------------------------------------------------------
(* Properties *)

DescInt == [type |-> "integer"]

\* The kind a value has under the precedence null, boolean, integer, number,
\* string, array, object, raw type name, read off the value's own type.
ExpectedKind(o) ==
    CASE o.t = "NoneType" -> "null"
      [] o.t = "bool" -> "boolean"
      [] o.t = "int" -> "integer"
      [] o.t = "float" -> "number"
      [] o.t = "str" -> "string"
      [] o.t = "list" -> "array"
      [] o.t = "dict" -> "object"
      [] OTHER -> o.t

\* C1: a call with depth <= max_depth returns a descriptor whose type is the
\* classification of the value under the first-match precedence (a bool is
\* "boolean", never "integer"; an int is "integer", never "number"), and so
\* do the descriptors of an object's analyzed property values.
C1_KindIsClassification ==
    (Analyzed /\ depth <= max_depth) =>
        /\ structure.type = ExpectedKind(obj)
        /\ (obj.t = "bool") => structure.type # "integer"
        /\ (obj.t = "int") => structure.type # "number"
        /\ (obj.t = "dict" /\ depth + 1 <= max_depth) =>
              \A i \in 1..Len(structure.properties) :
                  \E j \in 1..Len(obj.v) :
                      /\ obj.v[j].k = structure.properties[i].k
                      /\ structure.properties[i].v.type = ExpectedKind(obj.v[j].v)

C1_Witness ==
    /\ Analyzed /\ depth <= max_depth
    /\ obj = PyBool(TRUE)
    /\ structure.type = "boolean"

\* C2: the call returns the truncated sentinel exactly when depth >
\* max_depth; then nothing of the value is visited (no recursive call is
\* made) and seen_paths stays as it was.
C2_TruncatedIffDeeper ==
    Analyzed =>
        /\ (depth > max_depth) <=> (structure.type = "...")
        /\ (depth > max_depth) =>
              /\ structure = Truncated
              /\ seen_paths = {}
              /\ Len(calls) = 1

C2_Witness ==
    /\ Analyzed /\ depth > max_depth
    /\ obj.t = "dict" /\ Len(obj.v) > 0
    /\ structure = Truncated

\* The descriptor of the i-th element (1-based) of the top-level list, as a
\* call of its own.
ElementDesc(i) ==
    analyze_structure(obj.v[i], Root \o <<"[", Digit(i - 1), "]">>,
                      depth + 1, max_depth, {}, <<>>, 2).result

\* The paths of the calls made one level below the top-level call, in order.
ChildCallPaths ==
    LET below == SelectSeq(calls, LAMBDA c : c.depth = depth + 1)
    IN  [i \in 1..Len(below) |-> below[i].path]

C4_NoPathTwice ==
    Analyzed =>
        \A i, j \in 1..Len(calls) : i # j => calls[i].path # calls[j].path

KeysOf(kvs) == [i \in 1..Len(kvs) |-> kvs[i].k]

\* C5: for a dict with distinct keys analyzed at depth <= max_depth with a
\* fresh seen_paths, properties has one entry per key of the dict, in the
\* dict's order, none omitted.
C5_NoKeyOmitted ==
    (Analyzed /\ depth <= max_depth /\ obj.t = "dict") =>
        KeysOf(structure.properties) = KeysOf(obj.v)

\* The nodes of a descriptor tree in depth-first order, each with its depth
\* below the root descriptor.
RECURSIVE DescNodes(_, _)
RECURSIVE SeqNodes(_, _, _)
RECURSIVE PropNodes(_, _, _)
DescNodes(d, at) ==
    <<[node |-> d, at |-> at]>>
    \o (IF "items" \in DOMAIN d
        THEN IF "one" \in DOMAIN d.items
             THEN DescNodes(d.items.one, at + 1)
             ELSE SeqNodes(d.items.many, 1, at + 1)
        ELSE <<>>)
    \o (IF "properties" \in DOMAIN d THEN PropNodes(d.properties, 1, at + 1) ELSE <<>>)
SeqNodes(ds, i, at) ==
    IF i > Len(ds) THEN <<>> ELSE DescNodes(ds[i], at) \o SeqNodes(ds, i + 1, at)
PropNodes(ps, i, at) ==
    IF i > Len(ps) THEN <<>> ELSE DescNodes(ps[i].v, at) \o PropNodes(ps, i + 1, at)

Payload == {"sample", "length", "items", "properties"}

\* The groups sample, length+items, properties that a node populates.
Groups(n) ==
    {g \in {"sample", "length", "properties"} : g \in DOMAIN n}
    \cup (IF "items" \in DOMAIN n THEN {"length"} ELSE {})

\* C6 as stated: every node populates exactly one of sample, length+items,
\* properties.
C6_ExactlyOneGroup ==
    Analyzed =>
        LET ns == DescNodes(structure, 0)
        IN  \A i \in 1..Len(ns) : Cardinality(Groups(ns[i].node)) = 1

\* C6 as amended: every node populates at most one of sample, length+items,
\* properties, and its kind alone decides which: a string node has sample,
\* an array node has length and has items exactly when length > 0, an
\* object node has properties, a node of any other kind has none of them.
C6_GroupByKind ==
    Analyzed =>
        LET ns == DescNodes(structure, 0)
        IN  \A i \in 1..Len(ns) :
                LET n == ns[i].node
                IN  /\ Cardinality(Groups(n)) <= 1
                    /\ (n.type = "string") => DOMAIN n = {"type", "sample"}
                    /\ (n.type = "array") =>
                          /\ DOMAIN n \in {{"type", "length"}, {"type", "length", "items"}}
                          /\ ("items" \in DOMAIN n) <=> (n.length > 0)
                    /\ (n.type = "object") => DOMAIN n = {"type", "properties"}
                    /\ (n.type \notin {"string", "array", "object"}) =>
                          DOMAIN n \cap Payload = {}

C6_Witness ==
    /\ Analyzed /\ depth < max_depth
    /\ obj = DictEndToEnd
    /\ LET ns == DescNodes(structure, 0)
       IN  /\ \E i \in 1..Len(ns) : ns[i].node = DescInt
           /\ \E i \in 1..Len(ns) : ns[i].node.type = "string"
           /\ \E i \in 1..Len(ns) : ns[i].node.type = "array"

\* C7: after a call with depth 0, every node of the descriptor tree is at
\* most max_depth + 1 below the root, the nodes at max_depth + 1 are the
\* truncated sentinel (and no node above that level is), and no more than
\* max_depth + 2 analyze_structure frames are ever on the stack.
C7_DepthBounded ==
    (Analyzed /\ depth = 0) =>
        LET ns == DescNodes(structure, 0)
        IN  /\ \A i \in 1..Len(ns) :
                  /\ ns[i].at <= max_depth + 1
                  /\ (ns[i].at = max_depth + 1) => ns[i].node = Truncated
                  /\ (ns[i].at <= max_depth) => ns[i].node.type # "..."
            /\ \A i \in 1..Len(calls) :
                  /\ calls[i].frames <= max_depth + 2
                  /\ calls[i].depth <= max_depth + 1

C7_Witness ==
    /\ Analyzed /\ depth = 0 /\ max_depth >= 1
    /\ LET ns == DescNodes(structure, 0)
       IN  \E i \in 1..Len(ns) : ns[i].at = max_depth + 1 /\ ns[i].node = Truncated
    /\ \E i \in 1..Len(calls) : calls[i].frames = max_depth + 2

\* C8: for a string analyzed at depth <= max_depth, sample is the string
\* itself when it has at most 50 characters, and else its first 47
\* characters followed by "...", 50 characters in all; so sample never has
\* more than 50 characters.
C8_StringSample ==
    (Analyzed /\ depth <= max_depth /\ obj.t = "str") =>
        LET smp == structure.sample
        IN  /\ (Len(obj.v) <= 50) => smp = obj.v
            /\ (Len(obj.v) > 50) =>
                  /\ Len(smp) = 50
                  /\ \A i \in 1..47 : smp[i] = obj.v[i]
                  /\ \A i \in 48..50 : smp[i] = "."
            /\ Len(smp) <= 50

C8_Witness ==
    /\ Analyzed /\ depth <= max_depth
    /\ obj.t = "str" /\ Len(obj.v) = 51
    /\ Len(structure.sample) = 50
    /\ structure.sample # obj.v

IsOpen(w) == w.text \in {"Object {", "Array[] {"}
IsClose(w) == w.text = "}"

\* Every closing write closes the innermost open block, at that block's
\* indentation, and no block stays open.
RECURSIVE BracesMatch(_, _, _)
BracesMatch(ws, i, open) ==
    IF i > Len(ws) THEN open = <<>>
    ELSE IF IsOpen(ws[i]) THEN BracesMatch(ws, i + 1, Append(open, ws[i].ind))
    ELSE IF IsClose(ws[i])
    THEN /\ Len(open) > 0
         /\ open[Len(open)] = ws[i].ind
         /\ BracesMatch(ws, i + 1, SubSeq(open, 1, Len(open) - 1))
    ELSE BracesMatch(ws, i + 1, open)

\* The positions in ws of the entries (keys, items:, [i]:) of the root block.
RootEntries(ws) == {i \in 1..Len(ws) : ws[i].ind = 2 /\ ws[i].text \in {"key:", "items:", "[]:"}}
Position(S, k) == CHOOSE i \in S : Cardinality({j \in S : j < i}) = k - 1

\* The writes that must follow an entry whose descriptor is d, rendered at
\* indent 2 when it is a block.
StartsRendering(ws, p, d) ==
    IF d.type = "object"
    THEN ws[p].ind = 4 /\ ws[p].text = "Object {"
    ELSE IF d.type = "array"
    THEN ws[p].ind = 4 /\ ws[p].text = "Array[] {" /\ ws[p].length = d.length
    ELSE ws[p].text = "type" /\ ws[p].type = d.type

\* C9: print_structure writes depth first.  An object: "Object {", then each
\* property in stored order (its key, then the nested block at indent + 2
\* or the kind inline with the sample if there is one, then a line end),
\* then "}".  An array: "Array[n] {", then one "items:" entry or one "[i]:"
\* entry per listed descriptor in index order, each followed by that
\* descriptor's rendering at indent + 2, then "}".  Opening and closing
\* writes pair up and nest.
C9_DepthFirstOutput ==
    Printed =>
        LET E == RootEntries(out)
            last == out[Len(out)]
        IN  /\ BracesMatch(out, 1, <<>>)
            /\ (structure.type = "object") =>
                  /\ out[1] = [ind |-> 0, text |-> "Object {", end |-> "\n"]
                  /\ last = [ind |-> 0, text |-> "}", end |-> "\n"]
                  /\ Cardinality(E) = Len(structure.properties)
                  /\ \A k \in 1..Len(structure.properties) :
                        LET p == Position(E, k)
                            d == structure.properties[k].v
                        IN  /\ out[p].text = "key:"
                            /\ out[p].key = structure.properties[k].k
                            /\ IF d.type \in {"object", "array"}
                               THEN /\ out[p + 1] = [ind |-> 0, text |-> "", end |-> "\n"]
                                    /\ StartsRendering(out, p + 2, d)
                               ELSE /\ StartsRendering(out, p + 1, d)
                                    /\ IF "sample" \in DOMAIN d
                                       THEN /\ out[p + 2].sample = d.sample
                                            /\ out[p + 3].end = "\n"
                                       ELSE out[p + 2].end = "\n"
            /\ (structure.type = "array") =>
                  /\ out[1] = [ind |-> 0, text |-> "Array[] {",
                               length |-> structure.length, end |-> "\n"]
                  /\ last = [ind |-> 0, text |-> "}", end |-> "\n"]
                  /\ ("items" \notin DOMAIN structure) => Len(out) = 2
                  /\ ("items" \in DOMAIN structure) =>
                        IF "one" \in DOMAIN structure.items
                        THEN /\ E = {2}
                             /\ out[2].text = "items:"
                             /\ StartsRendering(out, 3, structure.items.one)
                        ELSE /\ Cardinality(E) = Len(structure.items.many)
                             /\ \A k \in 1..Len(structure.items.many) :
                                   LET p == Position(E, k)
                                   IN  /\ out[p].text = "[]:"
                                       /\ out[p].index = k - 1
                                       /\ StartsRendering(out, p + 1,
                                                          structure.items.many[k])
            /\ (structure.type \notin {"object", "array"}) =>
                  /\ out[1].text = "type" /\ out[1].type = structure.type
                  /\ \A i \in 1..Len(out) : ~IsOpen(out[i]) /\ ~IsClose(out[i])

C9_Witness ==
    /\ Printed
    /\ obj = DictEndToEnd /\ depth < max_depth
    /\ Cardinality({i \in 1..Len(out) : IsOpen(out[i])}) = 2
    /\ Cardinality({i \in 1..Len(out) : IsClose(out[i])}) = 2

\* C10: every closing "}" starts a line: the write just before a
\* closing-brace write ends with a line terminator.
C10_CloseOnOwnLine ==
    Printed =>
        \A i \in 1..Len(out) :
            IsClose(out[i]) => (i > 1 /\ out[i - 1].end = "\n")

=============================================================================
